---- MODULE Spec2Model ----
(***************************************************************************)
(* Model of multiprocesser/multiprocesser.py: the job-dispatch engine.     *)
(*                                                                         *)
(* One caller thread drives the module-level functions multi_processer and *)
(* apply, or a MultiProcesser instance (start, run_jobs, process_function, *)
(* apply, terminate), or the module-level process_function.  The worker    *)
(* pool (multiprocessing.Pool) is the environment: it runs submitted tasks *)
(* on `size` workers in FIFO order, time advances by Tick, and worker      *)
(* processes exit after terminate()/close().                               *)
(***************************************************************************)
EXTENDS Integers, Sequences, FiniteSets

\* ------------------------------------------------------------------ bounds
MaxJobs == 2    \* longest batch, and most tasks outstanding in one pool
TimeoutT == 2   \* the timeout argument, in ticks
CpuCount == 2   \* multiprocessing.cpu_count() of the machine
MaxData == 3    \* longest data_list handed to process_function

SlowDur == 2 * TimeoutT + 1     \* work that exceeds the timeout but ends
CpuRequests == 1..(CpuCount + 1)
Delays == {0, 1}                \* the delay argument: none, or one tick

Min(a, b) == IF a < b THEN a ELSE b

\* ------------------------------------------------------- python objects
\* Every element of a job tuple is one record shape, so that any two can be
\* compared.  A function carries what running it does: beh (ok, raise,
\* hang, loop), dur (ticks of work) and val (the value it returns).
Obj(kind, beh, dur, val, items) ==
    [kind |-> kind, beh |-> beh, dur |-> dur, val |-> val, items |-> items]
Fn(beh, dur, val) == Obj("function", beh, dur, val, <<>>)
NoneObj == Obj("None", "-", 0, "", <<>>)
IntObj == Obj("int", "-", 0, "", <<>>)
ListObj(s) == Obj("list", "-", 0, "", s)
DictObj(s) == Obj("dict", "-", 0, "", s)

\* A value held by a result slot: a scalar (a string names it) or a list.
Scalar(s) == [kind |-> "scalar", s |-> s, items |-> <<>>]
List(items) == [kind |-> "list", s |-> "", items |-> items]

\* results.append(False): the value the code puts in a failed slot.
FailedMarker == Scalar("False")

\* The raw job entries a caller may hand in.
JobMenu ==
    { <<Fn("ok", 1, "v1"), ListObj(<<1>>), DictObj(<<2>>)>>,
      <<Fn("ok", TimeoutT, "False"), NoneObj, NoneObj>>,
      <<Fn("ok", SlowDur, "v2"), ListObj(<<1>>), NoneObj>>,
      <<Fn("hang", 0, "v1"), ListObj(<<1>>), NoneObj>>,
      <<Fn("raise", 1, ""), NoneObj, DictObj(<<2>>)>>,
      <<Fn("ok", 1, "v1")>>,
      <<Fn("ok", 1, "v1"), ListObj(<<1>>), DictObj(<<2>>), NoneObj>>,
      <<IntObj, NoneObj, NoneObj>> }

Batches == UNION { [1..n -> JobMenu] : n \in 0..MaxJobs }

\* ------------------------------------------------------------ normalizer
\* job[0], job[1], job[2] raise IndexError on a tuple shorter than three.
Interpretable(job) == Len(job) >= 3

\* The canonical triple appended to job_args for one interpretable job.
NormalizedJob(job) ==
    LET function == job[1]
        arguments == job[2]
        kwarguments == job[3]
    IN  IF arguments.kind = "None" /\ kwarguments.kind = "None"
          THEN <<function, ListObj(<<>>), DictObj(<<>>)>>
        ELSE IF arguments.kind = "None"
          THEN <<function, ListObj(<<>>), kwarguments>>
        ELSE IF kwarguments.kind = "None"
          THEN <<function, arguments, DictObj(<<>>)>>
        ELSE <<function, arguments, kwarguments>>

\* Faulty variant: the loop is left after its first round.
NormalizationOverMutant(j, ja) == Len(ja) >= Min(1, Len(j))
\* The `for job in jobs` loop is over once every entry has been appended.
NormalizationOver(j, ja) == Len(ja) >= Len(j)

\* -------------------------------------------------------------- the pool
NoPool(owner) ==
    [state |-> "None", size |-> 0, alive |-> 0, joined |-> FALSE, owner |-> owner]
\* multiprocessing.Pool(processes=n)
NewPool(n, owner) ==
    [state |-> "RUN", size |-> n, alive |-> n, joined |-> FALSE, owner |-> owner]

\* An element of a data_list: a scalar (len() of it raises TypeError), or a
\* sized one (tuple, list) with its items.
Elem(x) == [sized |-> FALSE, items |-> <<x>>]
Tuple(xs) == [sized |-> TRUE, items |-> xs]

\* `try: len(data) except TypeError: data = (data, )` and then `*data`: the
\* positional arguments _loop_func calls the function with.
Unpacked(data) ==
    IF data.sized THEN [k \in 1..Len(data.items) |-> Elem(data.items[k])]
    ELSE <<data>>

\* The user function takes one positional argument.
ArityFits(positional) == Len(positional) = 1
\* The call function(*positional) raises no TypeError: one argument, and a
\* number (a sequence cannot be squared).
Callable(positional) == ArityFits(positional) /\ ~positional[1].sized

\* What _loop_func does on a chunk: nothing to fail on an empty one; a call
\* with the wrong number of arguments raises before the function runs.
LoopBeh(beh, data_list) ==
    IF data_list = <<>> THEN "ok"
    ELSE IF beh = "ok"
      THEN (IF \A n \in DOMAIN data_list : Callable(Unpacked(data_list[n]))
              THEN "ok" ELSE "raise")
    ELSE IF ArityFits(Unpacked(data_list[1])) THEN beh
    ELSE "raise"

\* What running a task does, from the function and its arguments.
TaskBeh(function, arguments) ==
    IF function.kind # "function" THEN "raise"
    ELSE IF function.beh = "loop"
      THEN LoopBeh(arguments.beh, arguments.items)
    ELSE function.beh
TaskDur(function, arguments) ==
    IF function.kind # "function" THEN 1
    ELSE IF function.beh = "loop"
      THEN (IF LoopBeh(arguments.beh, arguments.items) # arguments.beh
              THEN 1 ELSE arguments.dur)
    ELSE function.dur
\* The exception a failing task re-raises from get().
TaskExc(function) ==
    IF function.kind # "function" THEN "TypeError" ELSE "JobError"

NewTask(job_arg) ==
    [function |-> job_arg[1], arguments |-> job_arg[2], kwarguments |-> job_arg[3],
     st |-> "queued", rem |-> 0]


\* The user function applied to one element (square, as in the facade's use).
ApplyFn(function, x) == x * x

\* The value of function(*positional); -1, which is no square, stands for
\* the call that raises and so has no value.
CallValue(function, positional) ==
    IF Callable(positional) THEN ApplyFn(function, positional[1].items[1])
    ELSE -1

\* _loop_func(function, data_list, keyword_data): the user function called
\* on every element of the chunk, unpacked, in order.
LoopFunc(function, data_list) ==
    [n \in 1..Len(data_list) |-> CallValue(function, Unpacked(data_list[n]))]

\* [function(data, **keyword_data) for data in data_list]: the user function
\* called on every element as it is, in order.
SeqFunc(function, data_list) ==
    [n \in 1..Len(data_list) |-> CallValue(function, <<data_list[n]>>)]
\* What that comprehension does: the first call decides for a function that
\* raises or hangs; a function that returns fails on an element it cannot
\* square.
SeqBeh(beh, data_list) ==
    IF data_list = <<>> THEN "ok"
    ELSE IF beh = "ok"
      THEN (IF \A n \in DOMAIN data_list : Callable(<<data_list[n]>>)
              THEN "ok" ELSE "raise")
    ELSE beh

\* A dataset handed to apply: a list or an ndarray of one or two dimensions,
\* held as its rows (the rows of a one-dimensional one have one element).
Dataset(kind, ndim, rows) == [kind |-> kind, ndim |-> ndim, rows |-> rows]

\* The user function handed to apply, called on whole datasets: an array
\* with one row per row of its first argument, the square of the row's
\* first element.
RowsFn(function, datasets) ==
    IF datasets = <<>> THEN <<>>
    ELSE [r \in 1..Len(datasets[1].rows) |->
            IF datasets[1].rows[r] = <<>> THEN 0
            ELSE ApplyFn(function, datasets[1].rows[r][1])]

\* The value get() returns for a task that ran to its end.
TaskVal(function, arguments) ==
    IF function.beh = "loop"
      THEN List(LoopFunc(arguments, arguments.items))
    ELSE IF function.val = "rows"
      THEN List(RowsFn(function, arguments.items))
      ELSE Scalar(function.val)

TaskIds(ts, status) == { t \in DOMAIN ts : ts[t].st = status }

\* The pool hands queued tasks to idle workers, oldest first.
Schedule(ts, size) ==
    LET free == size - Cardinality(TaskIds(ts, "running"))
        startsNow(t) ==
            /\ ts[t].st = "queued"
            /\ Cardinality({ u \in TaskIds(ts, "queued") : u < t }) < free
    IN  [t \in DOMAIN ts |->
            IF startsNow(t)
              THEN [ts[t] EXCEPT !.st = "running",
                                 !.rem = TaskDur(ts[t].function, ts[t].arguments)]
              ELSE ts[t]]

\* One tick of work on every running task.
Advance(ts) ==
    [t \in DOMAIN ts |->
        IF ts[t].st # "running"
             \/ TaskBeh(ts[t].function, ts[t].arguments) = "hang"
          THEN ts[t]
        ELSE IF ts[t].rem <= 1
          THEN [ts[t] EXCEPT !.st = "done", !.rem = 0]
          ELSE [ts[t] EXCEPT !.rem = ts[t].rem - 1]]

\* Pool.terminate(): outstanding work is dropped and never completes.
Kill(ts) ==
    [t \in DOMAIN ts |->
        IF ts[t].st \in {"queued", "running"}
          THEN [ts[t] EXCEPT !.st = "killed", !.rem = 0]
          ELSE ts[t]]

Outstanding(ts) == TaskIds(ts, "queued") \cup TaskIds(ts, "running")

\* Tasks of earlier cycles that ended are of no further consequence.
Unfinished(ts) == SelectSeq(ts, LAMBDA t : t.st \in {"queued", "running"})

\* Ids in increasing order, as a sequence.
RECURSIVE SortedSeq(_)
SortedSeq(S) ==
    IF S = {} THEN <<>>
    ELSE LET x == CHOOSE y \in S : \A z \in S : y <= z
         IN  <<x>> \o SortedSeq(S \ {x})

\* ------------------------------------------------------------- arguments
\* axis_split: a single int, or one axis per dataset.
AxisInt(a) == [int |-> TRUE, axes |-> <<a>>]
AxisSeq(axes) == [int |-> FALSE, axes |-> axes]

\* What process_function or apply was called with.
Args(entry, function, data_list, axis_split, force_multiprocessing) ==
    [entry |-> entry, function |-> function, data_list |-> data_list,
     axis_split |-> axis_split, force_multiprocessing |-> force_multiprocessing]
\* Neither is in progress.
NoArgs == Args("none", NoneObj, <<>>, AxisInt(0), FALSE)

\* ---------------------------------------------------------------- state
VARIABLES
    m,              \* the MultiProcesser instance: exists, cpus (and the cpus
                    \* asked for), stop_on_error, delay
    facade,         \* the instance is the local `m` of module-level process_function
    worker_pool,    \* self.worker_pool, or multi_processer's worker_pool
    tasks,          \* the tasks handed to that pool
    api,            \* the entry point in progress
    pc,             \* the caller's position in it
    jobs,           \* the batch as received
    job_args,       \* the normalized batch
    queue,          \* the handles apply_async returned, in submission order
    results,        \* the result list under construction
    i,              \* the position of the collection loop (1-based)
    waited,         \* ticks spent in the current item.get(timeout)
    delay,          \* the delay argument, in ticks
    slept,          \* time.sleep(delay) after the last submission is over
    cpus,           \* the local cpus
    requested,      \* history: the cpus argument as the caller passed it
    args,           \* the arguments of the process_function / apply in progress
    stop_on_error,
    pool_created,
    error,          \* the exception raised (or being raised) to the caller
    result,         \* what the process_function facade returns
    got,            \* history: how each item.get() of this cycle ended
    finished        \* history: task ids in order of completion

vars == <<m, facade, worker_pool, tasks, api, pc, jobs, job_args, queue, results,
          i, waited, delay, slept, cpus, requested, args, stop_on_error, pool_created,
          error, result, got, finished>>

poolVars == <<worker_pool, tasks>>
cycleVars == <<jobs, job_args, queue, results, i, waited, delay, slept, cpus,
               requested, args, stop_on_error, pool_created, result, got>>

\* The call in progress has returned or raised.
Ended == pc \in {"done", "raised"}
\* The caller is between calls.
AtRest == pc = "idle"

Init ==
    /\ m = [exists |-> FALSE, requested |-> 0, cpus |-> 0, stop_on_error |-> FALSE,
            delay |-> 0]
    /\ facade = FALSE
    /\ worker_pool = NoPool("none")
    /\ tasks = <<>>
    /\ api = "none"
    /\ pc = "idle"
    /\ jobs = <<>>
    /\ job_args = <<>>
    /\ queue = <<>>
    /\ results = <<>>
    /\ i = 1
    /\ waited = 0
    /\ delay = 0
    /\ slept = TRUE
    /\ cpus = 0
    /\ requested = 0
    /\ args = NoArgs
    /\ stop_on_error = FALSE
    /\ pool_created = FALSE
    /\ error = "none"
    /\ result = <<>>
    /\ got = <<>>
    /\ finished = <<>>

\* What a dispatch call resets when it is entered.
EnterCycle(j, c, soe, d) ==
    /\ Len(Unfinished(tasks)) + Len(j) <= MaxJobs
    /\ jobs' = j
    /\ job_args' = <<>>
    /\ queue' = <<>>
    /\ results' = <<>>
    /\ i' = 1
    /\ waited' = 0
    /\ delay' = d
    /\ slept' = TRUE
    /\ cpus' = c
    /\ stop_on_error' = soe
    /\ pool_created' = FALSE
    /\ got' = <<>>
    /\ finished' = <<>>


\* -------------------------------------------------------- the environment
CurrentTask == tasks[queue[i]]

\* item.get(timeout) is in progress on the i-th handle.
Waiting == pc = "collect" /\ i <= Len(queue)

\* The caller is blocked on time: in get(), in time.sleep(delay) after a
\* submission (a delay of one tick), in Pool.join(), or between calls.
TimePasses ==
    \/ Waiting /\ CurrentTask.st # "done" /\ waited < TimeoutT
    \/ pc = "submit" /\ ~slept
    \/ pc \in {"join_raise", "join_end", "m_join"} /\ worker_pool.alive > 0
    \/ pc = "idle" /\ TaskIds(tasks, "running") # {}

\* One tick: running tasks work, freed workers take queued tasks, the wait
\* in progress grows by one.
Tick ==
    /\ TimePasses
    /\ LET worked == Advance(tasks)
       IN  /\ tasks' = Schedule(worked, worker_pool.size)
           /\ finished' = finished \o
                SortedSeq(TaskIds(worked, "done") \ TaskIds(tasks, "done"))
    /\ waited' = IF Waiting THEN waited + 1 ELSE waited
    /\ slept' = IF pc = "submit" THEN TRUE ELSE slept
    /\ UNCHANGED <<m, facade, worker_pool, api, pc, jobs, job_args, queue, results,
                   i, delay, cpus, requested, args, stop_on_error, pool_created, error,
                   result, got>>

\* The worker processes exit: at once after terminate(), after close() once
\* no work is outstanding.
WorkersExit ==
    /\ worker_pool.alive > 0
    /\ \/ worker_pool.state = "TERMINATE"
       \/ worker_pool.state = "CLOSE" /\ Outstanding(tasks) = {}
    /\ worker_pool' = [worker_pool EXCEPT !.alive = 0]
    /\ UNCHANGED <<m, facade, tasks, api, pc, error, finished>>
    /\ UNCHANGED cycleVars

\* ------------------------------------------------------- multi_processer
\* The caller creates a pool of its own to hand to multi_processer.
CallerCreatesPool ==
    /\ AtRest
    /\ ~m.exists
    /\ worker_pool.owner # "caller"
    /\ \E n \in 1..CpuCount : worker_pool' = NewPool(n, "caller")
    /\ tasks' = <<>>
    /\ api' = "Pool"
    /\ pc' = "done"
    /\ error' = "none"
    /\ UNCHANGED <<m, facade, finished>>
    /\ UNCHANGED cycleVars

\* Faulty variant: cpus is not clamped to the number of jobs.
ClampedCpusMutant(c, j) == Min(c, CpuCount)
\* cpus as clamped on entry of multi_processer.
ClampedCpus(c, j) == Min(Min(c, CpuCount), Len(j))

\* multi_processer(jobs, cpus, stop_on_error, worker_pool): entry.
MultiProcesserCall ==
    /\ AtRest
    /\ ~m.exists
    /\ \E j \in Batches, c \in CpuRequests, soe \in BOOLEAN, d \in Delays :
          /\ EnterCycle(j, ClampedCpus(c, j), soe, d)
          /\ requested' = c
    /\ args' = NoArgs
    /\ api' = "multi_processer"
    /\ pc' = "normalize"
    /\ error' = "none"
    /\ result' = <<>>
    /\ \/ /\ worker_pool.owner = "caller"
          /\ tasks' = Unfinished(tasks)
          /\ UNCHANGED worker_pool
       \/ /\ worker_pool.owner # "caller"
          /\ worker_pool' = NoPool("call")
          /\ tasks' = <<>>
    /\ UNCHANGED <<m, facade>>

\* One round of `for job in jobs` (both multi_processer and run_jobs).
Normalize ==
    /\ pc = "normalize"
    /\ IF NormalizationOver(jobs, job_args)
         THEN /\ pc' = IF api = "multi_processer" THEN "pool" ELSE "submit"
              /\ UNCHANGED <<job_args, error>>
       ELSE IF Interpretable(jobs[Len(job_args) + 1])
         THEN /\ job_args' = Append(job_args, NormalizedJob(jobs[Len(job_args) + 1]))
              /\ UNCHANGED <<pc, error>>
         ELSE /\ error' = "IndexError"
              /\ pc' = "raised"
              /\ UNCHANGED job_args
    /\ UNCHANGED <<m, facade, worker_pool, tasks, api, jobs, queue, results, i,
                   waited, delay, slept, cpus, requested, args, stop_on_error, pool_created,
                   result, got, finished>>

\* `if worker_pool is None: worker_pool = multiprocessing.Pool(processes=cpus)`
\* Pool() raises ValueError when asked for fewer than one process.
SpawnPool ==
    /\ pc = "pool"
    /\ IF worker_pool.state # "None"
         THEN /\ pc' = "submit"
              /\ UNCHANGED <<worker_pool, pool_created, error>>
       ELSE IF cpus < 1
         THEN /\ error' = "ValueError"
              /\ pc' = "raised"
              /\ UNCHANGED <<worker_pool, pool_created>>
         ELSE /\ worker_pool' = NewPool(cpus, "call")
              /\ pool_created' = TRUE
              /\ pc' = "submit"
              /\ UNCHANGED error
    /\ UNCHANGED <<m, facade, tasks, api, jobs, job_args, queue, results, i, waited,
                   delay, slept, cpus, requested, args, stop_on_error, result, got,
                   finished>>

\* Faulty variant: the loop is left after its first round.
SubmissionOverMutant(q, ja) == Len(q) >= Min(1, Len(ja))
\* The `for ... in enumerate(job_args)` loop is over once every normalized job
\* has its handle in the queue.
SubmissionOver(q, ja) == Len(q) >= Len(ja)

\* One round of the submission loop: apply_async, then time.sleep(delay).
\* apply_async fails on None (AttributeError) and on a pool that is not
\* running (ValueError).
Submit ==
    /\ pc = "submit"
    /\ slept
    /\ IF SubmissionOver(queue, job_args)
         THEN /\ pc' = "collect"
              /\ UNCHANGED <<tasks, queue, error, slept>>
       ELSE IF worker_pool.state = "None"
         THEN /\ error' = "AttributeError"
              /\ pc' = "raised"
              /\ UNCHANGED <<tasks, queue, slept>>
       ELSE IF worker_pool.state # "RUN"
         THEN /\ error' = "ValueError"
              /\ pc' = "raised"
              /\ UNCHANGED <<tasks, queue, slept>>
         ELSE /\ tasks' = Schedule(Append(tasks, NewTask(job_args[Len(queue) + 1])),
                                   worker_pool.size)
              /\ queue' = Append(queue, Len(tasks) + 1)
              /\ slept' = (delay = 0)
              /\ UNCHANGED <<pc, error>>
    /\ UNCHANGED <<m, facade, worker_pool, api, jobs, job_args, results, i, waited,
                   delay, cpus, requested, args, stop_on_error, pool_created, result, got,
                   finished>>


\* ------------------------------------------------------------- collector
\* Faulty variant: results.insert(0, ...), newest result first.
AppendResultMutant(rs, v) == <<v>> \o rs
\* results.append(item.get(timeout=timeout))
AppendResult(rs, v) == Append(rs, v)

\* Faulty variant: a failed wait leaves no entry.
FailureSlotMutant(rs) == rs
\* results.append(False) in both except branches.
FailureSlot(rs) == Append(rs, FailedMarker)

\* Faulty variants: the policy flag ignored, either way.
StopsOnFailureMutantNever(soe) == FALSE
StopsOnFailureMutantAlways(soe) == TRUE
\* `if self.stop_on_error:` / `if stop_on_error:` of both except branches.
StopsOnFailure(soe) == soe

\* Faulty variant: no join() after terminate() anywhere.
JoinsAfterTerminateMutant(a, created) == FALSE
\* `if pool_created: worker_pool.join()` after terminate(); run_jobs has no
\* join at all.
JoinsAfterTerminate(a, created) == a = "multi_processer" /\ created

\* How the wait on the current handle ends: the task's value, the exception
\* it raised, or multiprocessing.TimeoutError once the timeout has passed.
GetOutcome ==
    IF CurrentTask.st = "done"
      THEN (IF TaskBeh(CurrentTask.function, CurrentTask.arguments) = "raise"
              THEN "raise" ELSE "ok")
    ELSE IF waited >= TimeoutT THEN "timeout"
    ELSE "pending"

\* item.get() returns: the try branch of the collection loop.
GetValue ==
    /\ Waiting
    /\ GetOutcome = "ok"
    /\ results' = AppendResult(results, TaskVal(CurrentTask.function,
                                                CurrentTask.arguments))
    /\ got' = Append(got, "ok")
    /\ i' = i + 1
    /\ waited' = 0
    /\ UNCHANGED <<m, facade, worker_pool, tasks, api, pc, jobs, job_args, queue,
                   delay, slept, cpus, requested, args, stop_on_error, pool_created, error,
                   result, finished>>

\* item.get() raises: either except branch of the collection loop.
GetFailure ==
    /\ Waiting
    /\ GetOutcome \in {"raise", "timeout"}
    /\ got' = Append(got, GetOutcome)
    /\ IF StopsOnFailure(stop_on_error)
         THEN /\ worker_pool' = [worker_pool EXCEPT !.state = "TERMINATE"]
              /\ tasks' = Kill(tasks)
              /\ error' = IF GetOutcome = "timeout" THEN "TimeoutError"
                          ELSE TaskExc(CurrentTask.function)
              /\ pc' = IF JoinsAfterTerminate(api, pool_created)
                         THEN "join_raise" ELSE "raised"
              /\ UNCHANGED <<results, i, waited>>
         ELSE /\ results' = FailureSlot(results)
              /\ i' = i + 1
              /\ waited' = 0
              /\ UNCHANGED <<worker_pool, tasks, error, pc>>
    /\ UNCHANGED <<m, facade, api, jobs, job_args, queue, delay, slept, cpus,
                   requested, args, stop_on_error, pool_created, result, finished>>

\* worker_pool.join() after terminate(), then the raise.
JoinRaise ==
    /\ pc = "join_raise"
    /\ worker_pool.alive = 0
    /\ worker_pool' = [worker_pool EXCEPT !.joined = TRUE]
    /\ pc' = "raised"
    /\ UNCHANGED <<m, facade, tasks, api, error, finished>>
    /\ UNCHANGED cycleVars

\* Faulty variant: the pool is closed whoever created it.
ClosesPoolMutant(a, created) == a = "multi_processer"
\* `if pool_created: worker_pool.close(); worker_pool.join()`; run_jobs has
\* neither.
ClosesPool(a, created) == a = "multi_processer" /\ created

\* After the collection loop: multi_processer closes a pool it created and
\* goes on to join it; otherwise the results are returned.
EndCollect ==
    /\ pc = "collect"
    /\ i > Len(queue)
    /\ IF ClosesPool(api, pool_created)
         THEN /\ worker_pool' = [worker_pool EXCEPT !.state = "CLOSE"]
              /\ pc' = "join_end"
         ELSE /\ pc' = IF api = "process_function" THEN "flatten"
                       ELSE IF args.entry = "apply" THEN "vstack"
                       ELSE "done"
              /\ UNCHANGED worker_pool
    /\ UNCHANGED <<m, facade, tasks, api, error, finished>>
    /\ UNCHANGED cycleVars

\* worker_pool.join() after close(), then `return results`.
JoinEnd ==
    /\ pc = "join_end"
    /\ worker_pool.alive = 0
    /\ worker_pool' = [worker_pool EXCEPT !.joined = TRUE]
    /\ pc' = IF args.entry = "apply" THEN "vstack" ELSE "done"
    /\ UNCHANGED <<m, facade, tasks, api, error, finished>>
    /\ UNCHANGED cycleVars


\* --------------------------------------------------------- MultiProcesser
\* MultiProcesser(cpus, stop_on_error=...): __init__ clamps cpus and leaves
\* worker_pool None.
NewInstance(c, soe, d) ==
    [exists |-> TRUE, requested |-> c, cpus |-> Min(c, CpuCount),
     stop_on_error |-> soe, delay |-> d]

Construct ==
    /\ AtRest
    /\ ~m.exists
    /\ worker_pool.owner = "none"
    /\ \E c \in CpuRequests, soe \in BOOLEAN, d \in Delays :
          m' = NewInstance(c, soe, d)
    /\ worker_pool' = NoPool("instance")
    /\ api' = "__init__"
    /\ pc' = "done"
    /\ error' = "none"
    /\ UNCHANGED <<facade, tasks, finished>>
    /\ UNCHANGED cycleVars

\* start(): terminates (and joins) a pool it already holds, then creates one.
Start ==
    /\ AtRest
    /\ m.exists /\ ~facade
    /\ api' = "start"
    /\ error' = "none"
    /\ IF worker_pool.state # "None"
         THEN /\ worker_pool' = [worker_pool EXCEPT !.state = "TERMINATE"]
              /\ tasks' = Kill(tasks)
              /\ pc' = "m_join"
         ELSE /\ worker_pool' = NewPool(m.cpus, "instance")
              /\ tasks' = <<>>
              /\ pc' = "done"
    /\ UNCHANGED <<m, facade, finished>>
    /\ UNCHANGED cycleVars

\* terminate(): self.worker_pool.terminate() fails on None; then join().
Terminate ==
    /\ AtRest
    /\ m.exists /\ ~facade
    /\ api' = "terminate"
    /\ IF worker_pool.state = "None"
         THEN /\ error' = "AttributeError"
              /\ pc' = "raised"
              /\ UNCHANGED <<worker_pool, tasks>>
         ELSE /\ worker_pool' = [worker_pool EXCEPT !.state = "TERMINATE"]
              /\ tasks' = Kill(tasks)
              /\ error' = "none"
              /\ pc' = "m_join"
    /\ UNCHANGED <<m, facade, finished>>
    /\ UNCHANGED cycleVars

\* self.worker_pool.join() of terminate(); start() then creates the new pool.
InstanceJoin ==
    /\ pc = "m_join"
    /\ worker_pool.alive = 0
    /\ IF api = "start"
         THEN /\ worker_pool' = NewPool(m.cpus, "instance")
              /\ tasks' = <<>>
         ELSE /\ worker_pool' = [worker_pool EXCEPT !.joined = TRUE]
              /\ UNCHANGED tasks
    /\ pc' = "done"
    /\ UNCHANGED <<m, facade, api, error, finished>>
    /\ UNCHANGED cycleVars

\* run_jobs(jobs, timeout): entry.  The pool is whatever self.worker_pool is.
RunJobsCall ==
    /\ AtRest
    /\ m.exists /\ ~facade
    /\ \E j \in Batches : EnterCycle(j, m.cpus, m.stop_on_error, m.delay)
    /\ requested' = m.requested
    /\ args' = NoArgs
    /\ api' = "run_jobs"
    /\ pc' = "normalize"
    /\ error' = "none"
    /\ result' = <<>>
    /\ tasks' = Unfinished(tasks)
    /\ UNCHANGED <<m, facade, worker_pool>>

\* ---------------------------------------------------------------- chunker
\* Faulty variant: every chunk has the floor size, the remainder is dropped.
ChunkSizeMutant(tot_size, parts, n) == tot_size \div parts
\* The size of chunk n (0-based) of a dataset of tot_size elements.
ChunkSize(tot_size, parts, n) ==
    IF n < tot_size % parts THEN tot_size \div parts + 1 ELSE tot_size \div parts

\* `start` when the loop reaches chunk n: the sizes before it, added up.
RECURSIVE ChunkStart(_, _, _)
ChunkStart(tot_size, parts, n) ==
    IF n = 0 THEN 0
    ELSE ChunkStart(tot_size, parts, n - 1) + ChunkSize(tot_size, parts, n - 1)

\* data_list[start:start + size] for each of the `parts` chunks.
DataChunks(data_list, parts) ==
    [n \in 1..parts |->
        SubSeq(data_list,
               ChunkStart(Len(data_list), parts, n - 1) + 1,
               ChunkStart(Len(data_list), parts, n - 1)
                 + ChunkSize(Len(data_list), parts, n - 1))]

\* (_loop_func, (function, data_chunk), {"keyword_data": keyword_data})
LoopJob(function, data_chunk) ==
    <<Fn("loop", 0, ""),
      Obj("tuple", function.beh, function.dur, function.val, data_chunk),
      DictObj(<<1>>)>>

JobList(function, data_list, parts) ==
    [n \in 1..parts |-> LoopJob(function, DataChunks(data_list, parts)[n])]

\* The functions and datasets a caller hands to process_function.
UserFns == { Fn("ok", 1, "square"), Fn("raise", 1, "square"), Fn("hang", 0, "square") }
DataLists ==
    { [n \in 1..len |-> Elem(n)] : len \in 0..MaxData }
      \cup { <<Tuple(<<MaxData>>)>>, <<Elem(1), Tuple(<<1, MaxData>>)>> }

\* [item for sublist in results for item in sublist]
RECURSIVE Flatten(_)
Flatten(rs) ==
    IF rs = <<>> THEN <<>> ELSE Head(rs).items \o Flatten(Tail(rs))

\* Faulty variant: the pool is used whatever cpus and the flag are.
UsesPoolMutant(c, force_multiprocessing) == TRUE
\* `if self.cpus > 1 or force_multiprocessing:` (`if cpus > 1 or ...` in apply)
UsesPool(c, force_multiprocessing) == c > 1 \/ force_multiprocessing

\* The flag as a caller may pass it: `or` reads it only when cpus <= 1.
ForceChoices(c) == IF c > 1 THEN {FALSE} ELSE BOOLEAN

\* MultiProcesser.process_function from its first line: the chunked jobs go
\* to run_jobs; with one cpu and no forcing the function runs in-process.
ProcessFunctionBody(function, data_list, force_multiprocessing, inst) ==
    /\ IF UsesPool(inst.cpus, force_multiprocessing)
         THEN /\ EnterCycle(JobList(function, data_list, inst.cpus), inst.cpus,
                            inst.stop_on_error, inst.delay)
              /\ pc' = "normalize"
              /\ error' = "none"
              /\ result' = <<>>
         ELSE /\ EnterCycle(<<>>, inst.cpus, inst.stop_on_error, inst.delay)
              /\ IF SeqBeh(function.beh, data_list) = "ok"
                   THEN /\ result' = SeqFunc(function, data_list)
                        /\ error' = "none"
                        /\ pc' = "done"
                 ELSE IF SeqBeh(function.beh, data_list) = "raise"
                   THEN /\ result' = <<>>
                        /\ error' = IF function.beh = "raise"
                                      THEN "JobError" ELSE "TypeError"
                        /\ pc' = "raised"
                   ELSE /\ result' = <<>>
                        /\ error' = "none"
                        /\ pc' = "inline"
    /\ requested' = inst.requested
    /\ args' = Args("process_function", function, data_list, AxisInt(0),
                    force_multiprocessing)
    /\ api' = "process_function"

\* m.process_function(...) on an instance the caller holds.
ProcessFunctionCall ==
    /\ AtRest
    /\ m.exists /\ ~facade
    /\ \E function \in UserFns, data_list \in DataLists,
          force \in ForceChoices(m.cpus) :
          ProcessFunctionBody(function, data_list, force, m)
    /\ tasks' = Unfinished(tasks)
    /\ UNCHANGED <<m, facade, worker_pool>>

\* The module-level process_function: a new MultiProcesser, never started,
\* and its process_function.
ProcessFunctionFacade ==
    /\ AtRest
    /\ ~m.exists \/ facade
    /\ worker_pool.owner # "caller"
    /\ \E function \in UserFns, data_list \in DataLists,
          c \in CpuRequests, soe \in BOOLEAN, d \in Delays :
          \E force \in ForceChoices(Min(c, CpuCount)) :
          /\ m' = NewInstance(c, soe, d)
          /\ ProcessFunctionBody(function, data_list, force, NewInstance(c, soe, d))
    /\ facade' = TRUE
    /\ worker_pool' = NoPool("instance")
    /\ tasks' = <<>>

\* The return statement of the parallel path: the chunk results flattened.
\* Iterating a slot that holds False raises TypeError.
FlattenResults ==
    /\ pc = "flatten"
    /\ IF \E n \in DOMAIN results : results[n].kind # "list"
         THEN /\ error' = "TypeError"
              /\ pc' = "raised"
              /\ UNCHANGED result
         ELSE /\ result' = Flatten(results)
              /\ pc' = "done"
              /\ UNCHANGED error
    /\ UNCHANGED <<m, facade, worker_pool, tasks, api, jobs, job_args, queue,
                   results, i, waited, delay, slept, cpus, requested, args, stop_on_error,
                   pool_created, got, finished>>

\* ------------------------------------------------------------------ apply
\* np.array_split(data, parts, axis=axis): the sections have the sizes of the
\* chunk loop; along axis 1 every row is cut.
ArraySplit(data, parts, axis) ==
    [n \in 1..parts |->
        Dataset(data.kind, data.ndim,
                IF axis = 0
                  THEN DataChunks(data.rows, parts)[n]
                  ELSE [r \in 1..Len(data.rows) |->
                          DataChunks(data.rows[r], parts)[n]])]

\* data_chunks of one dataset: array_split for an ndarray (axis 0 when it
\* has one dimension), the chunk loop for anything else.
DatasetChunks(data, axis, parts) ==
    IF data.kind = "ndarray"
      THEN ArraySplit(data, parts, IF data.ndim = 1 THEN 0 ELSE axis)
      ELSE [n \in 1..parts |->
              Dataset(data.kind, data.ndim, DataChunks(data.rows, parts)[n])]

\* `if isinstance(axis_split, Integral): axis_split = [axis_split]*len(data_list)`
AxisList(axis_split, data_list) ==
    IF axis_split.int
      THEN [d \in 1..Len(data_list) |-> axis_split.axes[1]]
      ELSE axis_split.axes

\* Faulty variant: every job is handed the first chunk.
ChunkForJobMutant(data_chunks, n) == data_chunks[1]
\* `for i, chunk in enumerate(data_chunks): data_chunks_list[i].append(chunk)`
ChunkForJob(data_chunks, n) == data_chunks[n]

\* data_chunks_list after `for data, axis in zip(data_list, axis_split)`:
\* zip stops at the shorter of the two.
ApplyChunksList(data_list, axis_split, parts) ==
    LET axes == AxisList(axis_split, data_list)
    IN  [n \in 1..parts |->
            [d \in 1..Min(Len(data_list), Len(axes)) |->
                ChunkForJob(DatasetChunks(data_list[d], axes[d], parts), n)]]

\* [(function, data_chunks_list[i], keyword_data) for i in range(cpus)]
ApplyJobList(function, data_list, axis_split, parts) ==
    [n \in 1..parts |->
        <<function, ListObj(ApplyChunksList(data_list, axis_split, parts)[n]),
          DictObj(<<>>)>>]

\* The functions, datasets and axes a caller hands to apply.
ApplyFns == { Fn("ok", 1, "rows"), Fn("raise", 1, "rows") }
ListData == Dataset("list", 1, [n \in 1..MaxData |-> <<n>>])
ArrayData == Dataset("ndarray", 2, [r \in 1..2 |-> [c \in 1..MaxData |-> r + c]])
\* <<data_list, axis_split>>: the default axis, one axis for all, one axis
\* per dataset, and fewer axes than datasets.
ApplyInputs ==
    { <<<<ListData>>, AxisInt(0)>>,
      <<<<ListData, ArrayData>>, AxisInt(1)>>,
      <<<<ListData, ArrayData>>, AxisSeq(<<0, 1>>)>>,
      <<<<ListData, ArrayData>>, AxisSeq(<<1>>)>> }

\* apply from its first line, with c the cpus it uses and inner the
\* dispatcher it calls: the chunked jobs go to the dispatcher; with one cpu
\* and no forcing the function runs in-process on the whole datasets.
ApplyBody(function, data_list, axis_split, force_multiprocessing, c, soe, d, inner) ==
    /\ args' = Args("apply", function, data_list, axis_split, force_multiprocessing)
    /\ IF UsesPool(c, force_multiprocessing)
         THEN /\ LET job_list == ApplyJobList(function, data_list, axis_split, c)
                 IN  EnterCycle(job_list,
                                IF inner = "multi_processer"
                                  THEN ClampedCpus(c, job_list) ELSE c,
                                soe, d)
              /\ api' = inner
              /\ pc' = "normalize"
              /\ error' = "none"
              /\ result' = <<>>
         ELSE /\ EnterCycle(<<>>, c, soe, d)
              /\ api' = "apply"
              /\ IF function.beh = "ok"
                   THEN /\ result' = RowsFn(function, data_list)
                        /\ error' = "none"
                        /\ pc' = "done"
                   ELSE /\ result' = <<>>
                        /\ error' = "JobError"
                        /\ pc' = "raised"

\* m.apply(...) on an instance the caller holds: self.cpus, self.run_jobs.
ApplyCall ==
    /\ AtRest
    /\ m.exists /\ ~facade
    /\ \E function \in ApplyFns, input \in ApplyInputs,
          force \in ForceChoices(m.cpus) :
          ApplyBody(function, input[1], input[2], force, m.cpus,
                    m.stop_on_error, m.delay, "run_jobs")
    /\ requested' = m.requested
    /\ tasks' = Unfinished(tasks)
    /\ UNCHANGED <<m, facade, worker_pool>>

\* The module-level apply(..., cpus, ..., worker_pool): the cpus argument as
\* passed, multi_processer with the caller's worker_pool or None.
ApplyFunction ==
    /\ AtRest
    /\ ~m.exists
    /\ \E function \in ApplyFns, input \in ApplyInputs,
          c \in CpuRequests, soe \in BOOLEAN, d \in Delays :
          \E force \in ForceChoices(c) :
          /\ ApplyBody(function, input[1], input[2], force, c, soe, d,
                       "multi_processer")
          /\ requested' = c
          /\ IF worker_pool.owner = "caller" \/ ~UsesPool(c, force)
               THEN /\ tasks' = Unfinished(tasks)
                    /\ UNCHANGED worker_pool
               ELSE /\ worker_pool' = NoPool("call")
                    /\ tasks' = <<>>
    /\ UNCHANGED <<m, facade>>

\* `return np.vstack(results)`: the rows of the chunk results, one under the
\* other; a slot that holds a scalar makes one row.
RECURSIVE Vstack(_)
Vstack(rs) ==
    IF rs = <<>> THEN <<>>
    ELSE (IF Head(rs).kind = "list" THEN Head(rs).items ELSE <<0>>)
           \o Vstack(Tail(rs))

StackResults ==
    /\ pc = "vstack"
    /\ result' = Vstack(results)
    /\ pc' = "done"
    /\ UNCHANGED <<m, facade, worker_pool, tasks, api, jobs, job_args, queue,
                   results, i, waited, delay, slept, cpus, requested, args,
                   stop_on_error, pool_created, error, got, finished>>

\* The call is over: its frame, with every local, is gone, and the caller
\* goes on.
ReturnToCaller ==
    /\ Ended
    /\ pc' = "idle"
    /\ api' = "none"
    /\ error' = "none"
    /\ jobs' = <<>>
    /\ job_args' = <<>>
    /\ queue' = <<>>
    /\ results' = <<>>
    /\ i' = 1
    /\ waited' = 0
    /\ delay' = 0
    /\ slept' = TRUE
    /\ cpus' = 0
    /\ requested' = 0
    /\ args' = NoArgs
    /\ stop_on_error' = FALSE
    /\ pool_created' = FALSE
    /\ result' = <<>>
    /\ got' = <<>>
    /\ finished' = <<>>
    /\ tasks' = Unfinished(tasks)
    /\ UNCHANGED <<m, facade, worker_pool>>

\* ------------------------------------------------------------------ spec
Next ==
    \/ Tick
    \/ WorkersExit
    \/ CallerCreatesPool
    \/ MultiProcesserCall
    \/ Normalize
    \/ SpawnPool
    \/ Submit
    \/ GetValue
    \/ GetFailure
    \/ JoinRaise
    \/ EndCollect
    \/ JoinEnd
    \/ Construct
    \/ Start
    \/ Terminate
    \/ InstanceJoin
    \/ RunJobsCall
    \/ ProcessFunctionCall
    \/ ProcessFunctionFacade
    \/ FlattenResults
    \/ ApplyCall
    \/ ApplyFunction
    \/ StackResults
    \/ ReturnToCaller

Spec == Init /\ [][Next]_vars

\* The steps the caller's thread takes by itself once a call is under way.
CallStep ==
    \/ Normalize
    \/ SpawnPool
    \/ Submit
    \/ GetValue
    \/ GetFailure
    \/ JoinRaise
    \/ EndCollect
    \/ JoinEnd
    \/ InstanceJoin
    \/ FlattenResults
    \/ StackResults

\* Time passes, worker processes that have to exit do exit, and the caller's
\* thread runs whenever it is not blocked.  Whether another call is made is
\* up to the caller.
FairSpec == Spec /\ WF_vars(Tick) /\ WF_vars(WorkersExit) /\ WF_vars(CallStep)


\* ---------------------------------------------------------------- claims
\* A dispatch cycle (normalize, submit, collect) is the current or last call.
DispatchApis == {"multi_processer", "run_jobs", "process_function"}
InDispatch == api \in DispatchApis

\* multi_processer or run_jobs has returned its result list.
Returned ==
    \/ api \in {"multi_processer", "run_jobs"} /\ pc = "done"
    \/ api = "process_function" /\ pc = "flatten"

\* The value the n-th job of the batch returns when it runs to its end.
JobValue(n) == TaskVal(jobs[n][1], jobs[n][2])

\* Some wait of this cycle ended in a timeout or a worker-raised error.
SomeWaitFailed == \E n \in DOMAIN got : got[n] # "ok"

\* C1: the n-th entry of the result sequence is the outcome of the n-th
\* submitted job (its value when the n-th wait succeeded, the failure marker
\* otherwise), whatever the order in which the tasks completed.
C1_ResultOrder ==
    InDispatch =>
        \A n \in DOMAIN results :
            /\ n <= Len(got) /\ n <= Len(jobs)
            /\ results[n] = IF got[n] = "ok" THEN JobValue(n) ELSE FailedMarker

\* A batch of two returned in submission order although the second task
\* completed first.
C1_Witness ==
    /\ Returned
    /\ Len(results) = 2
    /\ got = <<"ok", "ok">>
    /\ results[1] # results[2]
    /\ finished = <<queue[2], queue[1]>>

\* C2: with stop_on_error false, the returned sequence has exactly one entry
\* per submitted task, each the task's value or the failure marker.
C2_OneEntryPerTask ==
    (Returned /\ ~stop_on_error) =>
        /\ Len(queue) = Len(jobs)
        /\ Len(results) = Len(queue)
        /\ \A n \in DOMAIN results : results[n] \in {JobValue(n), FailedMarker}

\* A returned batch in which one wait timed out and another met a worker error.
C2_Witness ==
    /\ Returned
    /\ ~stop_on_error
    /\ \E a, b \in DOMAIN got : got[a] = "timeout" /\ got[b] = "raise"

\* C3 (as claimed): with stop_on_error false a returned slot equals the
\* failure marker if and only if its task timed out or raised.
C3_MarkerOnlyOnFailure ==
    (Returned /\ ~stop_on_error) =>
        \A n \in DOMAIN results :
            n <= Len(got) /\ (results[n] = FailedMarker <=> got[n] # "ok")

\* C4: with stop_on_error true, a failed wait on task i terminates the pool,
\* is the last wait of the cycle, returns no result sequence, and raises the
\* timeout error or the worker's own error.
C4_FatalFailure ==
    (InDispatch /\ stop_on_error /\ SomeWaitFailed) =>
        /\ got[Len(got)] # "ok"
        /\ \A n \in 1..(Len(got) - 1) : got[n] = "ok"
        /\ i = Len(got)
        /\ pc \in {"join_raise", "raised"}
        /\ worker_pool.state = "TERMINATE"
        /\ error = IF got[Len(got)] = "timeout" THEN "TimeoutError"
                   ELSE TaskExc(jobs[i][1])

\* The first wait timed out under stop_on_error with a second task submitted
\* and never waited on, and the caller has the timeout error.
C4_Witness ==
    /\ InDispatch
    /\ stop_on_error
    /\ pc = "raised"
    /\ error = "TimeoutError"
    /\ Len(queue) = 2
    /\ got = <<"timeout">>

\* The caller sees the error of a wait that failed under stop_on_error.
FatalRaise == InDispatch /\ stop_on_error /\ SomeWaitFailed /\ pc = "raised"

\* C5 (as claimed): at that moment the pool is terminated and joined, with
\* no surviving worker, in multi_processer and in run_jobs alike.
C5_TerminatedAndJoined ==
    FatalRaise =>
        /\ worker_pool.state = "TERMINATE"
        /\ worker_pool.joined
        /\ worker_pool.alive = 0

\* C5 (amended): at that moment the pool is terminated; it is joined, with no
\* surviving worker, exactly when multi_processer created the pool itself.
C5_JoinedWhenOwned ==
    FatalRaise =>
        /\ worker_pool.state = "TERMINATE"
        /\ IF api = "multi_processer" /\ pool_created
             THEN worker_pool.joined /\ worker_pool.alive = 0
             ELSE ~worker_pool.joined

\* multi_processer raised a timeout under stop_on_error after joining the
\* pool it had created.
C5_Witness ==
    /\ FatalRaise
    /\ api = "multi_processer"
    /\ pool_created
    /\ worker_pool.joined
    /\ error = "TimeoutError"

\* C6: with stop_on_error false a failed wait neither terminates the pool nor
\* ends the collection loop: every failure fills its slot, and once the loop
\* is over every submitted task has been waited on.
C6_NonFatalFailure ==
    (InDispatch /\ ~stop_on_error /\ SomeWaitFailed) =>
        /\ worker_pool.state # "TERMINATE"
        /\ pc \in {"collect", "join_end", "done", "flatten", "vstack", "raised"}
        /\ Len(results) = Len(got)
        /\ i = Len(got) + 1
        /\ pc # "collect" => Len(got) = Len(queue)
        /\ pc = "raised" => api = "process_function" /\ error = "TypeError"

\* The first of two waits timed out, the second was still made, and the
\* caller-supplied pool is still running at the return.
C6_Witness ==
    /\ Returned
    /\ ~stop_on_error
    /\ Len(got) = 2
    /\ got[1] = "timeout"
    /\ worker_pool.state = "RUN"

\* The work of job n exceeds the timeout.
ExceedsTimeout(n) ==
    \/ TaskBeh(jobs[n][1], jobs[n][2]) = "hang"
    \/ TaskDur(jobs[n][1], jobs[n][2]) > TimeoutT
\* Job n completes in time when it runs.
CompletesInTime(n) ==
    /\ TaskBeh(jobs[n][1], jobs[n][2]) = "ok"
    /\ TaskDur(jobs[n][1], jobs[n][2]) <= TimeoutT

\* C7 (as claimed): with stop_on_error false and exactly one job whose work
\* exceeds the timeout, every other job completing in time when run, the
\* returned sequence has the failure marker in that job's slot and the
\* job's own value in every other slot.
C7_OnlySlowSlotFails ==
    (/\ api = "multi_processer" /\ pc = "done" /\ ~stop_on_error
     /\ \E s \in DOMAIN jobs :
           /\ ExceedsTimeout(s)
           /\ \A n \in DOMAIN jobs \ {s} : CompletesInTime(n)) =>
        \A n \in DOMAIN jobs :
            /\ n \in DOMAIN results
            /\ n \in DOMAIN got
            /\ IF ExceedsTimeout(n)
                 THEN results[n] = FailedMarker /\ got[n] = "timeout"
                 ELSE results[n] = JobValue(n) /\ got[n] = "ok"

WellFormed(job) == Len(job) = 3 /\ job[1].kind = "function"

\* C9 (as claimed): only well-formed entries are ever accepted by the
\* normalization, and absent args / kwargs become empty ones.
C9_MalformedRejected ==
    InDispatch =>
        \A n \in DOMAIN job_args :
            /\ WellFormed(jobs[n])
            /\ job_args[n][1] = jobs[n][1]
            /\ job_args[n][2] = IF jobs[n][2].kind = "None" THEN ListObj(<<>>)
                                ELSE jobs[n][2]
            /\ job_args[n][3] = IF jobs[n][3].kind = "None" THEN DictObj(<<>>)
                                ELSE jobs[n][3]

\* C10 (as claimed): a dispatch never fails for want of a pool.
C10_PoolCreatedOnDemand ==
    ~(InDispatch /\ pc = "raised" /\ error = "AttributeError")

\* The cpus argument behind the pool in use: of the call, or of __init__.
RequestedCpus == IF worker_pool.owner = "instance" THEN m.requested ELSE requested

\* A dispatch cycle is under way on a running pool that multi_processer or
\* start() created.
OnCreatedPool ==
    /\ InDispatch
    /\ pc \in {"submit", "collect"}
    /\ worker_pool.state = "RUN"
    /\ worker_pool.owner \in {"call", "instance"}

\* C11 (as claimed): a pool created for a dispatch, by multi_processer or by
\* start(), has min(requested, hardware concurrency, number of jobs) workers.
C11_PoolSizedToJobs ==
    OnCreatedPool =>
        worker_pool.size = Min(Min(RequestedCpus, CpuCount), Len(jobs))

\* C11 (amended): the pool multi_processer creates has min(requested, hardware
\* concurrency, number of jobs) workers; the pool start() creates has
\* min(requested, hardware concurrency) workers, whatever the batch.
C11_PoolSizedOnCreation ==
    OnCreatedPool =>
        worker_pool.size =
            IF worker_pool.owner = "call"
              THEN Min(Min(requested, CpuCount), Len(jobs))
              ELSE Min(m.requested, CpuCount)

\* multi_processer, asked for more workers than the machine has, dispatches
\* a batch of one job on a pool of one worker it created.
C11_Witness ==
    /\ OnCreatedPool
    /\ api = "multi_processer"
    /\ pool_created
    /\ requested > CpuCount
    /\ Len(jobs) = 1
    /\ worker_pool.size = 1

\* The step is a call of process_function or apply with cpus <= 1 and
\* force_multiprocessing false.
SequentialCall ==
    /\ AtRest
    /\ args'.entry \in {"process_function", "apply"}
    /\ cpus' <= 1
    /\ ~args'.force_multiprocessing

\* C12: with cpus <= 1 and no forcing, process_function and apply run the
\* function in-process: the call creates no pool, submits no job and leaves
\* the pool of the instance or of the caller, and its work, as they are (the
\* pool of an earlier multi_processer call is gone with that call);
\* process_function returns the function's value for every element in
\* order, apply the function's value on the whole datasets.
C12_SequentialInProcess ==
    [][SequentialCall =>
        /\ \/ worker_pool' = worker_pool
           \/ /\ worker_pool'.state = "None"
              /\ worker_pool.owner \notin {"caller", "instance"}
        /\ Unfinished(tasks') = Unfinished(tasks)
        /\ queue' = <<>>
        /\ pc' \in {"done", "raised", "inline"}
        /\ pc' = "raised" => error' \in {"JobError", "TypeError"}
        /\ pc' = "done" =>
              result' = IF args'.entry = "process_function"
                          THEN [n \in 1..Len(args'.data_list) |->
                                  ApplyFn(args'.function,
                                          args'.data_list[n].items[1])]
                          ELSE RowsFn(args'.function, args'.data_list)]_vars

\* process_function with one cpu and no forcing has returned the squares of
\* its data while the instance's pool is busy with earlier work.
C12_Witness ==
    /\ args.entry = "process_function"
    /\ cpus <= 1
    /\ ~args.force_multiprocessing
    /\ pc = "done"
    /\ Len(result) = MaxData
    /\ worker_pool.state = "RUN"
    /\ Outstanding(tasks) # {}

\* process_function is on its parallel path.
ParallelProcessFunction ==
    /\ args.entry = "process_function"
    /\ cpus > 1 \/ args.force_multiprocessing

\* The function applied to every element of data_list, in order.
ElementWise(function, data_list) ==
    [n \in 1..Len(data_list) |-> CallValue(function, <<data_list[n]>>)]

\* C13 (as claimed): on the parallel path, when no job has failed,
\* process_function ends by returning one result per element of data_list,
\* in the original order, each the function applied to that element.
C13_ParallelResults ==
    (/\ ParallelProcessFunction
     /\ Ended
     /\ args.function.beh = "ok"
     /\ \A n \in DOMAIN got : got[n] = "ok") =>
        /\ pc = "done"
        /\ result = ElementWise(args.function, args.data_list)

\* The sequences the chunk loop cut, with the chunks it made of each, while
\* the jobs built from them are in the batch: data_list for
\* process_function; for apply every dataset that is not an ndarray.
ChunkedJobs ==
    /\ args.entry \in {"process_function", "apply"}
    /\ api # "apply"
    /\ pc \notin {"idle", "done", "raised", "inline"} \/ jobs # <<>>
Chunkings ==
    IF args.entry = "process_function"
      THEN { [whole |-> args.data_list,
              chunks |-> [n \in 1..Len(jobs) |-> jobs[n][2].items]] }
      ELSE { [whole |-> args.data_list[d].rows,
              chunks |-> [n \in 1..Len(jobs) |-> jobs[n][2].items[d].rows]] :
             d \in { e \in 1..Len(args.data_list) :
                       /\ e <= Len(AxisList(args.axis_split, args.data_list))
                       /\ args.data_list[e].kind # "ndarray" } }

RECURSIVE Concat(_)
Concat(chunks) ==
    IF chunks = <<>> THEN <<>> ELSE Head(chunks) \o Concat(Tail(chunks))
RECURSIVE SumLen(_)
SumLen(chunks) ==
    IF chunks = <<>> THEN 0 ELSE Len(Head(chunks)) + SumLen(Tail(chunks))

\* C14: a sequence of L >= 0 elements is cut into exactly N >= 1 chunks (N
\* the cpus of the instance), also when N > L: the first L mod N have
\* ceil(L/N) elements and the others floor(L/N), the sizes add up to L and
\* differ by at most one, and the chunks put end to end are the sequence.
C14_Chunking ==
    ChunkedJobs =>
        \A c \in Chunkings :
            LET L == Len(c.whole)
                N == Len(c.chunks)
            IN  /\ N >= 1
                /\ m.exists => N = m.cpus
                /\ \A n \in 1..N :
                      Len(c.chunks[n]) = IF n <= L % N THEN (L + N - 1) \div N
                                         ELSE L \div N
                /\ SumLen(c.chunks) = L
                /\ \A a, b \in 1..N : Len(c.chunks[a]) - Len(c.chunks[b]) <= 1
                /\ Concat(c.chunks) = c.whole

\* process_function has cut a data_list into more than one chunk with a
\* remainder to spread, the first chunk one longer than the last.
C14_Witness ==
    /\ ChunkedJobs
    /\ args.entry = "process_function"
    /\ Len(jobs) > 1
    /\ Len(args.data_list) % Len(jobs) # 0
    /\ Len(jobs[1][2].items) = Len(jobs[Len(jobs)][2].items) + 1

\* apply is on its parallel path, and axis_split is a single int or has one
\* axis per dataset.
ParallelApply ==
    /\ args.entry = "apply"
    /\ api # "apply"
    /\ args.axis_split.int \/ Len(args.axis_split.axes) = Len(args.data_list)

\* The axis that goes with dataset d.
AxisOf(d) ==
    IF args.axis_split.int THEN args.axis_split.axes[1] ELSE args.axis_split.axes[d]

\* C15: apply builds exactly cpus jobs (self.cpus for the method, the cpus
\* argument for the function), each with the function and one positional
\* argument per dataset: for job n, at position d, the n-th chunk of dataset
\* d cut along that dataset's axis.
C15_ApplyJobs ==
    ParallelApply =>
        LET N == IF m.exists THEN m.cpus ELSE requested
        IN  /\ Len(jobs) = N
            /\ \A n \in 1..N :
                  /\ jobs[n][1] = args.function
                  /\ Len(jobs[n][2].items) = Len(args.data_list)
                  /\ \A d \in 1..Len(args.data_list) :
                        jobs[n][2].items[d] =
                            DatasetChunks(args.data_list[d], AxisOf(d), N)[n]

\* apply has built two jobs from two datasets with an axis for each, and the
\* jobs are being collected; their chunks of the second dataset differ.
C15_Witness ==
    /\ ParallelApply
    /\ ~args.axis_split.int
    /\ Len(args.data_list) = 2
    /\ Len(jobs) = 2
    /\ jobs[1][2].items[2] # jobs[2][2].items[2]
    /\ pc = "collect"

\* C16 (as claimed): terminate() never raises, whether the pool is running,
\* already terminated (by terminate() or by run_jobs under stop_on_error) or
\* was never started, and start() then ends with a fresh running pool.
C16_TerminateIdempotent ==
    /\ api = "terminate" => pc \in {"m_join", "done"} /\ error = "none"
    /\ (api = "terminate" /\ pc = "done") =>
          worker_pool.state \in {"None", "TERMINATE"} /\ worker_pool.alive = 0
    /\ (api = "start" /\ pc = "done") =>
          /\ worker_pool = NewPool(m.cpus, "instance")
          /\ tasks = <<>>

\* C17: the handles of a cycle are those of the batch's jobs, one task per
\* job in batch order, each submitted once: the n-th handle is the task made
\* from the n-th job, the tasks of the cycle are the last Len(queue) of the
\* pool with no other task added (none resubmitted after a failed wait), and
\* a wait is made only once the whole batch has been submitted.
C17_SubmittedOnceInOrder ==
    InDispatch =>
        /\ Len(queue) <= Len(job_args)
        /\ \A n \in DOMAIN queue :
              /\ queue[n] = Len(tasks) - Len(queue) + n
              /\ tasks[queue[n]].function = jobs[n][1]
              /\ tasks[queue[n]].arguments = job_args[n][2]
              /\ tasks[queue[n]].kwarguments = job_args[n][3]
        /\ (pc = "collect" \/ got # <<>>) =>
              /\ Len(queue) = Len(jobs)
              /\ Len(got) <= Len(queue)

\* Both jobs of a batch had been submitted, a tick apart, when the first
\* wait timed out; the second wait was made on the second handle and the
\* pool holds no task but the two.
C17_Witness ==
    /\ InDispatch
    /\ delay > 0
    /\ ~stop_on_error
    /\ Len(queue) = 2
    /\ Len(got) = 2
    /\ got[1] = "timeout"
    /\ Len(tasks) = 2

\* C18: when multi_processer returns or raises, a pool it created is closed
\* or terminated, and joined, with no worker left; when it returns after
\* dispatching on a pool the caller supplied, that pool is still running,
\* not joined, with all its workers.
C18_PoolTeardown ==
    /\ (api = "multi_processer" /\ Ended /\ pool_created) =>
          /\ worker_pool.state \in {"CLOSE", "TERMINATE"}
          /\ worker_pool.joined
          /\ worker_pool.alive = 0
    /\ (api = "multi_processer" /\ pc = "done" /\ worker_pool.owner = "caller"
          /\ queue # <<>>) =>
          /\ worker_pool.state = "RUN"
          /\ ~worker_pool.joined
          /\ worker_pool.alive = worker_pool.size

\* multi_processer has returned, one of its waits having timed out, after
\* closing and joining the pool it created.
C18_Witness ==
    /\ api = "multi_processer"
    /\ pc = "done"
    /\ pool_created
    /\ worker_pool.state = "CLOSE"
    /\ worker_pool.joined
    /\ SomeWaitFailed

\* multi_processer has been entered.
MultiProcesserEntered == api = "multi_processer" /\ pc = "normalize"

\* C19 (as claimed): every call of multi_processer returns or raises in the
\* end, whatever its tasks do.
C19_CallEnds == MultiProcesserEntered ~> (api = "multi_processer" /\ Ended)

\* The chunk results put end to end, the failed slots left out.
RECURSIVE FlattenOthers(_)
FlattenOthers(rs) ==
    IF rs = <<>> THEN <<>>
    ELSE (IF Head(rs).kind = "list" THEN Head(rs).items ELSE <<>>)
           \o FlattenOthers(Tail(rs))

\* C20 (as claimed): with stop_on_error false, process_function whose chunk
\* job timed out or raised ends by returning, without an error, the results
\* of the other chunks in order.
C20_MarkerSurvivesFlatten ==
    (/\ ParallelProcessFunction
     /\ ~stop_on_error
     /\ SomeWaitFailed
     /\ Ended) =>
        /\ pc = "done"
        /\ error = "none"
        /\ result = FlattenOthers(results)

\* The sequential path of process_function, on the same function and
\* data_list, returns this sequence.
SequentialReturns(function, data_list, sequence) ==
    /\ SeqBeh(function.beh, data_list) = "ok"
    /\ sequence = SeqFunc(function, data_list)

\* C21 (as claimed): when process_function has returned on its parallel
\* path with no failing job, the sequential path on the same function and
\* data_list returns the same result sequence, for scalar and for sized
\* elements alike.
C21_PathsAgree ==
    (/\ ParallelProcessFunction
     /\ pc = "done"
     /\ \A n \in DOMAIN got : got[n] = "ok") =>
        SequentialReturns(args.function, args.data_list, result)

\* The same agreement for a data_list of scalar elements only.
C21_ScalarPathsAgree ==
    (/\ ParallelProcessFunction
     /\ pc = "done"
     /\ \A n \in DOMAIN got : got[n] = "ok"
     /\ \A n \in DOMAIN args.data_list : ~args.data_list[n].sized) =>
        SequentialReturns(args.function, args.data_list, result)

\* The parallel path has returned the square of the one item of a
\* one-element tuple, which the sequential path cannot square.
C21_SizedReturned ==
    /\ ParallelProcessFunction
    /\ pc = "done"
    /\ args.data_list = <<Tuple(<<MaxData>>)>>
    /\ result = <<MaxData * MaxData>>

====
